---- MODULE Spec2Model ----
(***************************************************************************)
(* Model of process_media.py: the preset override merger, the filter and   *)
(* rate-control argument builders, the command builder, the output namer   *)
(* and the batch loop of main().                                           *)
(*                                                                         *)
(* Representation.                                                         *)
(*   - A Python str is a tuple of one-character strings where the program  *)
(*     slices, parses or concatenates it (bitrates, stems, preset names,   *)
(*     containers, formatted integers); literal program text that is only  *)
(*     passed along is kept as a tuple of one piece (<<"ffmpeg">>).        *)
(*   - An optional argparse value is <<>> (None) or <<v>>.                 *)
(*   - A Python dict is a function from its keys; dicts live in a heap (a  *)
(*     sequence of dicts indexed by object id) and a dict that holds       *)
(*     another dict holds its id, so that copies and aliases differ.       *)
(***************************************************************************)
EXTENDS Integers, Sequences, FiniteSets, TLC

VARIABLES
    pc,         \* position in main(): the statement to run next
    args,       \* argparse.Namespace of the run (set by parse_args)
    heap,       \* every dict object ever allocated, by object id
    presets,    \* the loaded preset store: preset name -> object id
    names,      \* list of requested preset names (line 190)
    inputs,     \* list of candidate files (line 199)
    fi,         \* index of the outer loop (for infile in inputs)
    ni,         \* index of the inner loop (for n in names)
    exit_code,  \* main's local exit_code
    status,     \* process exit status handed to the OS, <<>> while running
    ran,        \* history: one record per call of process_one
    spawned,    \* history: number of encoder processes spawned
    lastFail,   \* history: status of the latest job that returned nonzero
    okAfterFail,\* history: a job returned 0 after some job returned nonzero
    setup,      \* history: the setup failures this run has met
    loaded,     \* history: the heap as json.load built it
    probe       \* inputs and result of the function exercised by a unit specification

vars == <<pc, args, heap, presets, names, inputs, fi, ni, exit_code, status,
          ran, spawned, lastFail, okAfterFail, setup, loaded, probe>>

----------------------------------------------------------------------------
(* Bounds of the model *)

MaxNames == 2

MaxFiles == 2

MaxDigits == 2

----------------------------------------------------------------------------
(* Python values *)

None == <<>>

Some(v) == <<v>>

\* "if x:" for an optional int: not None and not 0
TruthyInt(o) == Len(o) = 1 /\ o[1] # 0

\* "if x:" for an optional str: not None and not ""
TruthyStr(o) == Len(o) = 1 /\ Len(o[1]) > 0

\* "x is not None"
IsNotNone(o) == Len(o) = 1

EmptyDict == [x \in {} |-> 0]

\* d.get(k, default)
Get(d, k, default) == IF k \in DOMAIN d THEN d[k] ELSE default

\* d[k] = v
SetItem(d, k, v) == [x \in (DOMAIN d) \cup {k} |-> IF x = k THEN v ELSE d[x]]

DigitChars == <<"0", "1", "2", "3", "4", "5", "6", "7", "8", "9">>

IsDigit(c) == \E d \in 1..10 : DigitChars[d] = c

DigitVal(c) == (CHOOSE d \in 1..10 : DigitChars[d] = c) - 1

RECURSIVE StrNat(_)
StrNat(n) == IF n < 10 THEN <<DigitChars[n + 1]>>
             ELSE StrNat(n \div 10) \o <<DigitChars[(n % 10) + 1]>>

\* str(n) for an int
Str(n) == IF n < 0 THEN <<"-">> \o StrNat(0 - n) ELSE StrNat(n)

\* int(s) succeeds on a non-empty run of decimal digits (the model's strings
\* hold no sign, blank or underscore, which int() would also accept)
IntOk(s) == Len(s) > 0 /\ \A i \in 1..Len(s) : IsDigit(s[i])

RECURSIVE IntVal(_)
IntVal(s) == IF Len(s) = 0 THEN 0
             ELSE 10 * IntVal(SubSeq(s, 1, Len(s) - 1)) + DigitVal(s[Len(s)])

\* s[:-1]
DropLast(s) == IF Len(s) = 0 THEN s ELSE SubSeq(s, 1, Len(s) - 1)

\* s.lower() on the mode strings of the model
Lower(s) == IF s = <<"CRF">> THEN <<"crf">>
            ELSE IF s = <<"Bitrate">> THEN <<"bitrate">>
            ELSE s

Ok(v) == [raised |-> FALSE, val |-> v]

Raised == [raised |-> TRUE, val |-> <<>>]

----------------------------------------------------------------------------
(* build_filter, build_video_args, build_cmd, normalize_outname *)

build_filter(width, height, strategy, pad_color) ==
    IF strategy = <<"cover">>
    THEN Ok(<<"scale=">> \o Str(width) \o <<":">> \o Str(height)
            \o <<":force_original_aspect_ratio=increase,">>
            \o <<"crop=">> \o Str(width) \o <<":">> \o Str(height) \o <<",setsar=1">>)
    ELSE IF strategy = <<"contain">>
    THEN Ok(<<"scale=">> \o Str(width) \o <<":">> \o Str(height)
            \o <<":force_original_aspect_ratio=decrease,">>
            \o <<"pad=">> \o Str(width) \o <<":">> \o Str(height)
            \o <<":(ow-iw)/2:(oh-ih)/2:">> \o pad_color \o <<",setsar=1">>)
    ELSE Raised

\* the -bufsize argument of line 78
bufsize(vb) == Str(IntVal(DropLast(vb)) * 2) \o <<"k">>

build_video_args(enc) ==
    LET x264_preset == Get(enc, "x264_preset", <<"medium">>)
        args0 == << <<"-preset">>, x264_preset >>
        mode == Lower(Get(enc, "mode", <<"bitrate">>))
    IN  IF mode = <<"bitrate">>
        THEN LET vb == Get(enc, "video_bitrate", <<"5", "0", "0", "0", "k">>)
             IN  IF IntOk(DropLast(vb))
                 THEN Ok(args0 \o << <<"-b:v">>, vb, <<"-maxrate">>, vb,
                                     <<"-bufsize">>, bufsize(vb) >>)
                 ELSE Raised
        ELSE IF mode = <<"crf">>
        THEN Ok(args0 \o << <<"-crf">>, Str(Get(enc, "crf", 20)), <<"-b:v">>, <<"0">> >>)
        ELSE Raised

DefaultEncode ==
    [mode |-> <<"bitrate">>, video_bitrate |-> <<"5", "0", "0", "0", "k">>,
     x264_preset |-> <<"medium">>]

\* str(path) of a pathlib.Path
PathStr(f) == f.parent \o <<"/">> \o f.stem \o f.suffix

\* h: the heap, p: the object id of the resolved preset
build_cmd(infile, outfile, h, p) ==
    LET d == h[p]
        width == d.width
        height == d.height
        fps == Get(d, "fps", 30)
        strategy == Get(d, "strategy", <<"cover">>)
        pad_color == Get(d, "pad_color", <<"black">>)
        vcodec == Get(d, "vcodec", <<"libx264">>)
        pix_fmt == Get(d, "pix_fmt", <<"yuv420p">>)
        profile == Get(d, "profile", <<"high">>)
        audio_bitrate == Get(d, "audio_bitrate", <<"128k">>)
        vf == build_filter(width, height, strategy, pad_color)
        enc == IF "encode" \in DOMAIN d THEN h[d.encode] ELSE DefaultEncode
        v_args == build_video_args(enc)
    IN  IF vf.raised THEN Raised
        ELSE IF v_args.raised THEN Raised
        ELSE Ok(<< <<"ffmpeg">>, <<"-y">>, <<"-i">>, PathStr(infile),
                   <<"-vf">>, vf.val, <<"-r">>, Str(fps), <<"-c:v">>, vcodec,
                   <<"-profile:v">>, profile, <<"-pix_fmt">>, pix_fmt >>
                \o v_args.val
                \o << <<"-movflags">>, <<"+faststart">>, <<"-c:a">>, <<"aac">>,
                      <<"-b:a">>, audio_bitrate, outfile >>)

\* variant: the stem is left out of the name
normalize_outname_nostem(stem, preset_name, container) ==
    preset_name \o <<".">> \o container

normalize_outname(stem, preset_name, container) ==
    stem \o <<"_">> \o preset_name \o <<".">> \o container

\* outdir / name
OutPath(outdir, name) == outdir \o <<"/">> \o name

----------------------------------------------------------------------------
(* process_one *)

Mp4 == <<"m", "p", "4">>

\* outfile of lines 124-125
outfile_of(infile, outdir, preset_name, h, p) ==
    OutPath(outdir, normalize_outname(infile.stem, preset_name,
                                      Get(h[p], "container", Mp4)))

\* variant: a dry run returns before the command is built
process_one_dryfirst(infile, outdir, preset_name, h, p, dry_run, rc) ==
    LET outfile == outfile_of(infile, outdir, preset_name, h, p)
        cmd == build_cmd(infile, outfile, h, p)
    IN  IF dry_run
        THEN [raised |-> FALSE, code |-> 0, cmd |-> <<>>, outfile |-> outfile,
              spawned |-> 0]
        ELSE IF cmd.raised
        THEN [raised |-> TRUE, code |-> 0, cmd |-> <<>>, outfile |-> outfile,
              spawned |-> 0]
        ELSE [raised |-> FALSE, code |-> rc, cmd |-> cmd.val, outfile |-> outfile,
              spawned |-> 1]

\* rc: what subprocess.call returns if the encoder is run. The result names
\* what the call did: raised, the code returned, the command built, the output
\* path and the number of encoder processes spawned.
process_one(infile, outdir, preset_name, h, p, dry_run, rc) ==
    LET outfile == outfile_of(infile, outdir, preset_name, h, p)
        cmd == build_cmd(infile, outfile, h, p)
    IN  IF cmd.raised
        THEN [raised |-> TRUE, code |-> 0, cmd |-> <<>>, outfile |-> outfile,
              spawned |-> 0]
        ELSE IF dry_run
        THEN \* the command is printed, not run
             [raised |-> FALSE, code |-> 0, cmd |-> cmd.val, outfile |-> outfile,
              spawned |-> 0]
        ELSE \* the command is printed and handed to subprocess.call
             [raised |-> FALSE, code |-> rc, cmd |-> cmd.val, outfile |-> outfile,
              spawned |-> 1]

----------------------------------------------------------------------------
(* apply_overrides *)

\* obj[k] = v on the heap
Store(h, id, k, v) == [h EXCEPT ![id] = SetItem(@, k, v)]

StoreIf(c, h, id, k, v) == IF c THEN Store(h, id, k, v) ELSE h

\* dict(x): a new object holding x's items
NewDict(h, d) == Append(h, d)

\* variant: enc = out.get("encode", {}), the base's encode dict itself
copy_encode_alias(h, out) ==
    IF "encode" \in DOMAIN h[out] THEN [heap |-> h, enc |-> h[out].encode]
    ELSE [heap |-> NewDict(h, EmptyDict), enc |-> Len(h) + 1]

\* line 154, enc = dict(out.get("encode", {})): the heap after it and enc's id
copy_encode(h, out) ==
    [heap |-> NewDict(h, IF "encode" \in DOMAIN h[out] THEN h[h[out].encode]
                         ELSE EmptyDict),
     enc |-> Len(h) + 1]

\* variant: "if args.crf:"
crf_given_truthy(a) == TruthyInt(a.crf)

\* line 157
crf_given(a) == IsNotNone(a.crf)

\* h: the heap, p: object id of the base preset, a: the Namespace.
\* Returns the heap after the call and the object id of the returned dict.
apply_overrides(h, p, a) ==
    LET out == Len(h) + 1
        h0 == NewDict(h, h[p])
        h1 == StoreIf(TruthyInt(a.width), h0, out, "width", a.width[1])
        h2 == StoreIf(TruthyInt(a.height), h1, out, "height", a.height[1])
        h3 == StoreIf(TruthyInt(a.fps), h2, out, "fps", a.fps[1])
        h4 == StoreIf(TruthyStr(a.strategy), h3, out, "strategy", a.strategy[1])
        e == copy_encode(h4, out)
        enc == e.enc
        h5 == e.heap
        h6 == StoreIf(TruthyStr(a.mode), h5, enc, "mode", a.mode[1])
        h7 == StoreIf(TruthyStr(a.video_bitrate), h6, enc, "video_bitrate",
                      a.video_bitrate[1])
        h8 == IF crf_given(a)
              THEN Store(Store(h7, enc, "mode", <<"crf">>), enc, "crf", a.crf[1])
              ELSE h7
        h9 == StoreIf(TruthyStr(a.x264_preset), h8, enc, "x264_preset",
                      a.x264_preset[1])
        h10 == Store(h9, out, "encode", enc)
        h11 == StoreIf(TruthyStr(a.audio_bitrate), h10, out, "audio_bitrate",
                       a.audio_bitrate[1])
    IN  [heap |-> h11, out |-> out]

----------------------------------------------------------------------------
(* collect_inputs *)

VIDEO_EXTS == { <<".mp4">>, <<".mov">>, <<".m4v">>, <<".mkv">>, <<".avi">>, <<".webm">> }

File(parent, stem, suffix) == [parent |-> parent, stem |-> stem, suffix |-> suffix]

\* The files the input path may hold, in the order sorted() gives their paths
AllFiles ==
    << File(<<"in">>, <<"a">>, <<".mp4">>),
       File(<<"in">>, <<"c", "l", "i", "p">>, <<".mov">>),
       File(<<"in">>, <<"c", "l", "i", "p">>, <<".mp4">>),
       File(<<"in">>, <<"n", "o", "t", "e", "s">>, <<".txt">>),
       File(<<"in/sub">>, <<"c", "l", "i", "p">>, <<".mp4">>) >>

FileIds == 1..Len(AllFiles)

RECURSIVE SortedIds(_)
\* sorted(files): ascending path order
SortedIds(S) == IF S = {} THEN <<>>
                ELSE LET m == CHOOSE x \in S : \A y \in S : x <= y
                     IN  <<m>> \o SortedIds(S \ {m})

\* kind: "none" (no such path), "file" or "dir"; ids: the path itself (file)
\* or every file below it (dir). exits: sys.exit was called.
collect_inputs(kind, ids) ==
    IF kind = "file" THEN [exits |-> FALSE, files |-> SortedIds(ids)]
    ELSE IF kind = "dir"
    THEN [exits |-> FALSE,
          files |-> SortedIds({i \in ids : \E ext \in VIDEO_EXTS :
                                                AllFiles[i].suffix = ext})]
    ELSE [exits |-> TRUE, files |-> <<>>]

----------------------------------------------------------------------------
(* The environment of a run: preset files, command lines, encoder statuses *)

NameC == <<"c">>

NameBC == <<"b", "_", "c">>

NameZ == <<"z">>

Bitrate6000k == <<"6", "0", "0", "0", "k">>

Bitrate8M == <<"8", "M">>

Audio96k == <<"9", "6", "k">>

PresetReel ==
    [width |-> 1080, height |-> 1920, fps |-> 30, strategy |-> <<"cover">>, encode |-> 2]

EncodeReel == [mode |-> <<"crf">>, crf |-> 20, x264_preset |-> <<"slow">>]

PresetWide ==
    [width |-> 1920, height |-> 1080, strategy |-> <<"contain">>,
     pad_color |-> <<"black">>, audio_bitrate |-> <<"1", "2", "8", "k">>,
     container |-> <<"m", "o", "v">>, encode |-> 4]

EncodeWide == [mode |-> <<"bitrate">>, video_bitrate |-> Bitrate6000k]

\* What presets.json may hold: the heap json.load builds and the top-level dict
PresetFiles ==
    { [heap |-> <<PresetReel, EncodeReel, PresetWide, EncodeWide>>,
       presets |-> (NameC :> 1) @@ (NameBC :> 3)],
      \* a strategy build_filter does not know
      [heap |-> <<[PresetReel EXCEPT !.strategy = <<"stretch">>], EncodeReel,
                  PresetWide, EncodeWide>>,
       presets |-> (NameC :> 1) @@ (NameBC :> 3)],
      \* an encode mode build_video_args does not know
      [heap |-> <<PresetReel, EncodeReel, PresetWide,
                  [EncodeWide EXCEPT !.mode = <<"vbr">>]>>,
       presets |-> (NameC :> 1) @@ (NameBC :> 3)],
      \* a preset without an encode block, an upper-case mode
      [heap |-> <<[width |-> 1080, height |-> 1920], [PresetWide EXCEPT !.encode = 3],
                  [mode |-> <<"CRF">>, crf |-> 18]>>,
       presets |-> (NameC :> 1) @@ (NameBC :> 2)] }

NoOverrides ==
    [width |-> None, height |-> None, fps |-> None, strategy |-> None,
     mode |-> None, video_bitrate |-> None, crf |-> None, x264_preset |-> None,
     audio_bitrate |-> None]

\* The override sets of the command lines of the batch specification
MainOverrides ==
    { NoOverrides,
      [NoOverrides EXCEPT !.mode = Some(<<"bitrate">>), !.crf = Some(0)],
      [NoOverrides EXCEPT !.width = Some(720), !.height = Some(480), !.fps = Some(24),
                          !.strategy = Some(<<"contain">>),
                          !.video_bitrate = Some(Bitrate8M),
                          !.x264_preset = Some(<<"fast">>),
                          !.audio_bitrate = Some(Audio96k)] }

RECURSIVE SeqsUpTo(_, _)
\* the sequences over S of length at most n
SeqsUpTo(S, n) == IF n = 0 THEN { <<>> }
                  ELSE LET T == SeqsUpTo(S, n - 1)
                       IN  T \cup { Append(t, x) : t \in {u \in T : Len(u) = n - 1}, x \in S }

\* what subprocess.call may return
ExitCodes == {0, 1, 2}

Outdir == <<"outputs">>

\* the input paths: none, one file, or a directory holding at most MaxFiles files
InputPaths ==
    { [kind |-> "none", ids |-> {}] }
    \cup { [kind |-> "file", ids |-> {i}] : i \in FileIds }
    \cup { [kind |-> "dir", ids |-> S] : S \in {T \in SUBSET FileIds : Cardinality(T) <= MaxFiles} }

----------------------------------------------------------------------------
(* main *)

Running == status = <<>>

\* sys.exit(code), or the interpreter's exit after an uncaught exception
Exit(code) == /\ status' = Some(code)
              /\ pc' = "exited"

\* variant: exit_code = code without the test
next_exit_code_always(old, code) == code

\* lines 209-211
next_exit_code(old, code) == IF code # 0 THEN code ELSE old

\* variant: the inner loop is left after its first job
next_position_break(f, n, nNames) == <<f + 1, 1>>

\* the position after one job of the nested for loops: (fi, ni)
next_position(f, n, nNames) == IF n < nNames THEN <<f, n + 1>> ELSE <<f + 1, 1>>

\* line 200, "if not inputs"
no_inputs(files) == Len(files) = 0

\* the files of a directory listing whose suffix is in the allow-list
VideoIds(ids) == {i \in ids : AllFiles[i].suffix \in VIDEO_EXTS}

\* variant: only the first requested name is looked up
missing_names_first(ns, store) ==
    IF Len(ns) > 0 /\ ns[1] \notin DOMAIN store THEN <<ns[1]>> ELSE <<>>

\* line 191
missing_names(ns, store) == SelectSeq(ns, LAMBDA n : n \notin DOMAIN store)

\* line 166
CheckFfmpeg ==
    /\ pc = "check_ffmpeg"
    /\ \E found \in BOOLEAN :
         IF found THEN pc' = "parse_args" /\ UNCHANGED <<status, setup>>
         ELSE Exit(1) /\ setup' = setup \cup {"no encoder"}
    /\ UNCHANGED <<args, heap, presets, names, inputs, fi, ni, exit_code,
                   ran, spawned, lastFail, okAfterFail, loaded, probe>>

\* lines 168-187, for a command line argparse accepts; preset holds the
\* stripped, non-empty pieces of --preset
ParseArgs ==
    /\ pc = "parse_args"
    /\ \E o \in MainOverrides, dry \in BOOLEAN,
          ns \in SeqsUpTo({NameC, NameBC, NameZ}, MaxNames) :
         args' = o @@ [dry_run |-> dry, preset |-> ns]
    /\ pc' = "load_presets"
    /\ UNCHANGED <<heap, presets, names, inputs, fi, ni, exit_code, status,
                   ran, spawned, lastFail, okAfterFail, setup, loaded, probe>>

\* line 189, load_presets: the file is missing (sys.exit), is not JSON
\* (json.load raises, uncaught), or loads
LoadPresets ==
    /\ pc = "load_presets"
    /\ \/ /\ \E why \in {"presets file missing", "presets file malformed"} :
                setup' = setup \cup {why}
          /\ Exit(1)
          /\ UNCHANGED <<heap, presets, loaded>>
       \/ /\ \E f \in PresetFiles :
                heap' = f.heap /\ presets' = f.presets /\ loaded' = f.heap
          /\ pc' = "check_names"
          /\ UNCHANGED <<status, setup>>
    /\ UNCHANGED <<args, names, inputs, fi, ni, exit_code,
                   ran, spawned, lastFail, okAfterFail, probe>>

\* lines 190-193
CheckNames ==
    /\ pc = "check_names"
    /\ names' = args.preset
    /\ setup' = IF \E i \in 1..Len(args.preset) : args.preset[i] \notin DOMAIN presets
                THEN setup \cup {"unknown preset"} ELSE setup
    /\ IF Len(missing_names(args.preset, presets)) > 0 THEN Exit(1)
       ELSE pc' = "collect_inputs" /\ UNCHANGED status
    /\ UNCHANGED <<args, heap, presets, inputs, fi, ni, exit_code,
                   ran, spawned, lastFail, okAfterFail, loaded, probe>>

\* lines 195-201 (ensure_outdir only creates the output directory)
CollectInputs ==
    /\ pc = "collect_inputs"
    /\ \E path \in InputPaths :
         LET c == collect_inputs(path.kind, path.ids)
         IN  /\ setup' = IF path.kind = "none" THEN setup \cup {"no input path"}
                         ELSE IF path.kind = "dir" /\ VideoIds(path.ids) = {}
                         THEN setup \cup {"no candidate files"}
                         ELSE setup
             /\ IF c.exits THEN Exit(1) /\ UNCHANGED inputs
                ELSE /\ inputs' = [i \in 1..Len(c.files) |-> AllFiles[c.files[i]]]
                     /\ IF no_inputs(c.files) THEN Exit(1)
                        ELSE pc' = "loop" /\ UNCHANGED status
    /\ UNCHANGED <<args, heap, presets, names, fi, ni, exit_code,
                   ran, spawned, lastFail, okAfterFail, loaded, probe>>

\* lines 204-211: one iteration of the inner loop (a dry run never reads the
\* encoder's status)
RunJob ==
    /\ pc = "loop"
    /\ fi <= Len(inputs)
    /\ ni <= Len(names)
    /\ IF names[ni] \notin DOMAIN presets
       THEN \* presets[n] raises KeyError, uncaught
            /\ Exit(1)
            /\ UNCHANGED <<heap, ran, spawned, fi, ni, exit_code, lastFail, okAfterFail>>
       ELSE
       \E rc \in (IF args.dry_run THEN {0} ELSE ExitCodes) :
       \E r \in {apply_overrides(heap, presets[names[ni]], args)} :
       \E o \in {process_one(inputs[fi], Outdir, names[ni], r.heap, r.out,
                             args.dry_run, rc)} :
       \E pos \in {next_position(fi, ni, Len(names))} :
             /\ heap' = r.heap
             /\ ran' = Append(ran, [infile |-> inputs[fi], n |-> names[ni],
                                    p |-> r.out, outfile |-> o.outfile,
                                    cmd |-> o.cmd, raised |-> o.raised])
             /\ spawned' = spawned + o.spawned
             /\ IF o.raised
                THEN \* ValueError from build_filter / build_video_args, uncaught
                     /\ Exit(1)
                     /\ UNCHANGED <<fi, ni, exit_code, lastFail, okAfterFail>>
                ELSE /\ exit_code' = next_exit_code(exit_code, o.code)
                     /\ lastFail' = IF o.code # 0 THEN o.code ELSE lastFail
                     /\ okAfterFail' = IF o.code # 0 THEN FALSE
                                       ELSE (okAfterFail \/ lastFail # 0)
                     /\ fi' = pos[1]
                     /\ ni' = pos[2]
                     /\ UNCHANGED <<pc, status>>
    /\ UNCHANGED <<args, presets, names, inputs, setup, loaded, probe>>

\* line 213
ExitMain ==
    /\ pc = "loop"
    /\ fi > Len(inputs) \/ Len(names) = 0
    /\ status' = Some(exit_code)
    /\ pc' = "done"
    /\ UNCHANGED <<args, heap, presets, names, inputs, fi, ni, exit_code,
                   ran, spawned, lastFail, okAfterFail, setup, loaded, probe>>

Init ==
    /\ pc = "check_ffmpeg"
    /\ args = <<>>
    /\ heap = <<>>
    /\ presets = <<>>
    /\ names = <<>>
    /\ inputs = <<>>
    /\ fi = 1
    /\ ni = 1
    /\ exit_code = 0
    /\ status = <<>>
    /\ ran = <<>>
    /\ spawned = 0
    /\ lastFail = 0
    /\ okAfterFail = FALSE
    /\ setup = {}
    /\ loaded = <<>>
    /\ probe = <<>>

Next == \/ CheckFfmpeg
        \/ ParseArgs
        \/ LoadPresets
        \/ CheckNames
        \/ CollectInputs
        \/ RunJob
        \/ ExitMain

Spec == Init /\ [][Next]_vars

----------------------------------------------------------------------------
(* Properties of the batch (specification Spec) *)

NJobs == Len(inputs) * Len(names)

\* the k-th job of the cross product, files outermost
JobFile(k) == inputs[((k - 1) \div Len(names)) + 1]

JobName(k) == names[((k - 1) % Len(names)) + 1]

\* C1: when main leaves through line 213, the exit code is the status of the
\* latest job that returned nonzero, and 0 exactly when none did.
C1_ExitCodeIsLastFailure ==
    pc = "done" => /\ status = Some(lastFail)
                   /\ (status = Some(0) <=> lastFail = 0)

\* A batch has ended in which a job failed with status 2, a later job
\* succeeded, and the exit code is that of the failed job.
C1_Witness ==
    pc = "done" /\ lastFail = 2 /\ okAfterFail /\ status = Some(2) /\ Len(ran) >= 2

\* C2: a batch that reaches line 213 has run process_one once for every
\* (file, preset name) pair, in loop order, N x M jobs in all, whatever the
\* encoder returned; the loop stops early only when a job raised.
C2_EveryPairRuns ==
    /\ pc = "done" =>
         /\ Len(ran) = NJobs
         /\ \A k \in 1..Len(ran) : ran[k].infile = JobFile(k) /\ ran[k].n = JobName(k)
    /\ (pc = "exited" /\ Len(ran) > 0) => ran[Len(ran)].raised
    /\ \A k \in 1..Len(ran) : k < Len(ran) => ~ran[k].raised

\* A 2 x 2 batch has ended with four jobs run although a job other than the
\* last returned nonzero.
C2_Witness ==
    /\ pc = "done" /\ Len(inputs) = 2 /\ Len(names) = 2 /\ Len(ran) = 4
    /\ okAfterFail /\ ~args.dry_run

\* C3 (as claimed): once the run has ended, if a job raised from build_filter or
\* build_video_args then every job of the batch has run and the exit code is
\* nonzero.
C3_RaisingJobIsIsolated ==
    (~Running /\ \E k \in 1..Len(ran) : ran[k].raised)
        => (Len(ran) = NJobs /\ status # Some(0))

\* C4: once a setup failure has been met (no encoder, presets file missing or
\* malformed, unknown preset name, no input path, no candidate file), the run
\* has ended with a nonzero exit code and no job was run or spawned.
C4_SetupFailureRunsNothing ==
    setup # {} => /\ ~Running
                  /\ status # Some(0)
                  /\ ran = <<>>
                  /\ spawned = 0

\* A run has ended on an unknown preset name although another requested name
\* is in the store, and no job ran.
C4_Witness ==
    /\ "unknown preset" \in setup
    /\ \E i \in 1..Len(names) : names[i] \in DOMAIN presets
    /\ status = Some(1) /\ ran = <<>>

\* the command line has been parsed and asks for a dry run
DryRun == "dry_run" \in DOMAIN args /\ args.dry_run

\* the command a real run builds for the k-th recorded job
RealRunCmd(k) ==
    process_one(ran[k].infile, Outdir, ran[k].n, heap, ran[k].p, FALSE, 0).cmd

\* C5: the command process_one built for each job is the one a real run builds
\* for the same file, output directory, preset name and resolved preset; in
\* dry-run mode no encoder is spawned and no job returns a nonzero status.
C5_DryRunSameCommand ==
    /\ \A k \in 1..Len(ran) : ~ran[k].raised =>
          /\ ran[k].cmd = RealRunCmd(k)
          /\ Len(ran[k].cmd) > 0
    /\ DryRun =>
          /\ spawned = 0
          /\ lastFail = 0
          /\ exit_code = 0
          /\ (pc = "done" => status = Some(0))

\* A dry run has ended after building the commands of two jobs.
C5_Witness ==
    /\ pc = "done" /\ args.dry_run /\ Len(ran) >= 2 /\ spawned = 0
    /\ \A k \in 1..Len(ran) : ~ran[k].raised /\ Len(ran[k].cmd) > 0

DistinctJobs(j, k) == ran[j].infile # ran[k].infile \/ ran[j].n # ran[k].n

\* C8 (as claimed): any two jobs of a batch that differ in input file or in
\* preset name have different output paths.
C8_DistinctJobsDistinctPaths ==
    \A j, k \in 1..Len(ran) : DistinctJobs(j, k) => ran[j].outfile # ran[k].outfile

\* C8 (amended): two jobs of the same preset name have the same output path
\* exactly when their input files have the same stem.
C8_SamePathIffSameStem ==
    \A j, k \in 1..Len(ran) :
        ran[j].n = ran[k].n =>
            (ran[j].outfile = ran[k].outfile <=> ran[j].infile.stem = ran[k].infile.stem)

\* Two jobs on different files of one stem and the same preset name share an
\* output path; and two jobs of one preset on files of different stems do not.
C8_Witness ==
    /\ \E j, k \in 1..Len(ran) :
          /\ ran[j].infile # ran[k].infile /\ ran[j].n = ran[k].n
          /\ ran[j].infile.stem = ran[k].infile.stem
          /\ ran[j].outfile = ran[k].outfile
    /\ pc = "done"

BaseIds == 1..Len(loaded)

\* the dicts a job's resolved preset is made of
JobIds(k) == {ran[k].p} \cup (IF "encode" \in DOMAIN heap[ran[k].p]
                              THEN {heap[ran[k].p].encode} ELSE {})

\* C9: every dict of the preset store keeps its loaded value, and the dicts of
\* a job's resolved preset are neither store dicts nor dicts of another job.
C9_BasePresetsNeverMutated ==
    /\ \A id \in BaseIds : heap[id] = loaded[id]
    /\ \A k \in 1..Len(ran) :
          /\ JobIds(k) \cap BaseIds = {}
          /\ Cardinality(JobIds(k)) = 2
          /\ \A j \in 1..Len(ran) : j # k => JobIds(j) \cap JobIds(k) = {}

\* Two jobs of the same base preset have run with a crf override that changes
\* the encode block of their copies.
C9_Witness ==
    /\ Len(ran) >= 2 /\ ran[1].n = ran[2].n
    /\ IsNotNone(args.crf)
    /\ "encode" \in DOMAIN heap[presets[ran[1].n]]
    /\ heap[heap[ran[1].p].encode] # heap[heap[presets[ran[1].n]].encode]
    /\ heap[presets[ran[1].n]] = loaded[presets[ran[1].n]]

----------------------------------------------------------------------------
(* apply_overrides on its own (specification SpecOverrides) *)

\* The override sets: every field absent, falsy (0, "") where the command line
\* can give that, or set
AllOverrides ==
    [width : {None, Some(0), Some(720)},
     height : {None, Some(480)},
     fps : {None, Some(0), Some(24)},
     strategy : {None, Some(<<"contain">>)},
     mode : {None, Some(<<"bitrate">>), Some(<<"crf">>)},
     video_bitrate : {None, Some(<<>>), Some(Bitrate8M)},
     crf : {None, Some(0), Some(23)},
     x264_preset : {None, Some(<<"fast">>)},
     audio_bitrate : {None, Some(<<>>), Some(Audio96k)}]

IdleBatch ==
    /\ names = <<>>
    /\ inputs = <<>>
    /\ fi = 1
    /\ ni = 1
    /\ exit_code = 0
    /\ status = <<>>
    /\ ran = <<>>
    /\ spawned = 0
    /\ lastFail = 0
    /\ okAfterFail = FALSE
    /\ setup = {}

OverridesInit ==
    /\ pc = "apply_overrides"
    /\ \E f \in PresetFiles :
         /\ heap = f.heap
         /\ loaded = f.heap
         /\ presets = f.presets
         /\ \E n \in DOMAIN f.presets : probe = [base |-> f.presets[n], out |-> None]
    /\ \E o \in AllOverrides : args = o @@ [dry_run |-> FALSE, preset |-> <<>>]
    /\ IdleBatch

\* p = apply_overrides(base_p, args)
ApplyOverrides ==
    /\ pc = "apply_overrides"
    /\ \E r \in {apply_overrides(heap, probe.base, args)} :
         /\ heap' = r.heap
         /\ probe' = [probe EXCEPT !.out = Some(r.out)]
    /\ pc' = "returned"
    /\ UNCHANGED <<args, presets, names, inputs, fi, ni, exit_code, status,
                   ran, spawned, lastFail, okAfterFail, setup, loaded>>

OverridesNext == ApplyOverrides

SpecOverrides == OverridesInit /\ [][OverridesNext]_vars

\* the dict apply_overrides returned, its encode dict, and those of the base
OutDict == heap[probe.out[1]]

OutEnc == heap[OutDict.encode]

BaseDict == loaded[probe.base]

BaseEnc == IF "encode" \in DOMAIN BaseDict THEN loaded[BaseDict.encode] ELSE EmptyDict

\* C6: when crf is supplied, 0 included, the returned preset has encode.mode =
\* "crf" and encode.crf = the supplied value, whatever the mode override and
\* the base preset's mode are.
C6_CrfForcesCrfMode ==
    (pc = "returned" /\ IsNotNone(args.crf)) =>
        /\ "mode" \in DOMAIN OutEnc /\ OutEnc.mode = <<"crf">>
        /\ "crf" \in DOMAIN OutEnc /\ OutEnc.crf = args.crf[1]

\* crf 0 was supplied together with mode bitrate on a bitrate-mode base
\* preset, and the result is in crf mode with crf 0.
C6_Witness ==
    /\ pc = "returned"
    /\ args.crf = Some(0) /\ args.mode = Some(<<"bitrate">>)
    /\ "mode" \in DOMAIN BaseEnc /\ BaseEnc.mode = <<"bitrate">>
    /\ OutEnc.mode = <<"crf">> /\ OutEnc.crf = 0

\* key k of the result d carries the supplied value when override o is present
\* and the base's value (or absence) when it is not
FieldFollows(o, d, base, k) ==
    IF IsNotNone(o) THEN k \in DOMAIN d /\ d[k] = o[1]
    ELSE /\ (k \in DOMAIN d <=> k \in DOMAIN base)
         /\ (k \in DOMAIN base => d[k] = base[k])

\* C10 (as claimed): every override that is present, whatever its value, is the
\* value of its field in the returned preset, and every field whose override is
\* absent keeps the base's value (mode excepted when crf is supplied).
C10_PresentOverridesApplied ==
    pc = "returned" =>
        /\ FieldFollows(args.width, OutDict, BaseDict, "width")
        /\ FieldFollows(args.height, OutDict, BaseDict, "height")
        /\ FieldFollows(args.fps, OutDict, BaseDict, "fps")
        /\ FieldFollows(args.strategy, OutDict, BaseDict, "strategy")
        /\ FieldFollows(args.audio_bitrate, OutDict, BaseDict, "audio_bitrate")
        /\ (IsNotNone(args.crf) \/ FieldFollows(args.mode, OutEnc, BaseEnc, "mode"))
        /\ FieldFollows(args.video_bitrate, OutEnc, BaseEnc, "video_bitrate")
        /\ FieldFollows(args.x264_preset, OutEnc, BaseEnc, "x264_preset")

----------------------------------------------------------------------------
(* build_video_args on its own (specification SpecVideoArgs) *)

BitrateDigits == {"0", "1", "6", "9"}

BitrateSuffixes == { <<"k">>, <<"M">>, <<>> }

\* video_bitrate strings: one to MaxDigits digits, then a unit suffix or none
Bitrates ==
    { d \o x : d \in SeqsUpTo(BitrateDigits, MaxDigits) \ { <<>> }, x \in BitrateSuffixes }

EncInputs ==
    { [mode |-> m, video_bitrate |-> vb] : m \in { <<"bitrate">>, <<"Bitrate">> },
                                           vb \in Bitrates }
    \cup { [video_bitrate |-> vb, x264_preset |-> <<"fast">>] : vb \in Bitrates }
    \cup { [mode |-> <<"crf">>, crf |-> 20], [mode |-> <<"crf">>],
           [mode |-> <<"vbr">>], [mode |-> <<"bitrate">>], EmptyDict }

VideoArgsInit ==
    /\ pc = "build_video_args"
    /\ \E e \in EncInputs : probe = [enc |-> e, out |-> None]
    /\ args = <<>>
    /\ heap = <<>>
    /\ presets = <<>>
    /\ loaded = <<>>
    /\ IdleBatch

\* v_args = build_video_args(enc)
BuildVideoArgs ==
    /\ pc = "build_video_args"
    /\ probe' = [probe EXCEPT !.out = Some(build_video_args(probe.enc))]
    /\ pc' = "returned"
    /\ UNCHANGED <<args, heap, presets, names, inputs, fi, ni, exit_code, status,
                   ran, spawned, lastFail, okAfterFail, setup, loaded>>

VideoArgsNext == BuildVideoArgs

SpecVideoArgs == VideoArgsInit /\ [][VideoArgsNext]_vars

\* the argument that follows flag in an argument list
ArgAfter(list, flag) ==
    list[(CHOOSE i \in 1..Len(list) : list[i] = flag) + 1]

\* s is a decimal integer followed by a one-character unit suffix
HasUnitSuffix(s) == Len(s) >= 2 /\ IntOk(DropLast(s)) /\ ~IsDigit(s[Len(s)])

\* C7 (as claimed): in bitrate mode, for a video_bitrate that is a decimal
\* integer followed by a unit suffix, the -bufsize argument is twice that
\* integer followed by the same suffix.
C7_BufsizeKeepsUnit ==
    (/\ pc = "returned"
     /\ Lower(Get(probe.enc, "mode", <<"bitrate">>)) = <<"bitrate">>
     /\ "video_bitrate" \in DOMAIN probe.enc
     /\ HasUnitSuffix(probe.enc.video_bitrate))
    => LET vb == probe.enc.video_bitrate
       IN  /\ ~probe.out[1].raised
           /\ ArgAfter(probe.out[1].val, <<"-bufsize">>)
                = Str(2 * IntVal(DropLast(vb))) \o <<vb[Len(vb)]>>

====
